---- MODULE Spec2Model ----
(***************************************************************************)
(* Model of the Strongly.AI integration of open-notebook:                  *)
(*   api/auth.py             StronglyAuthMiddleware.dispatch               *)
(*   api/strongly.py         get_user_from_headers                         *)
(*   api/routers/strongly.py sync_models_from_gateway, delete_strongly_... *)
(*                                                                         *)
(* Python strings whose content the code inspects (strip, lower, split)    *)
(* are sequences of one-character strings.  An optional value (Python      *)
(* None / a missing dict key) is the empty tuple, a present value v is the *)
(* one-element tuple <<v>>.                                                *)
(***************************************************************************)
EXTENDS Integers, Sequences, FiniteSets, Bags, TLC

None == <<>>

Some(v) == <<v>>

(***************************************************************************)
(* String primitives: str.lower, str.strip, str.split                      *)
(***************************************************************************)
Uppers == <<"A", "B", "C", "D", "E", "F", "G", "H", "I", "J", "K", "L", "M",
            "N", "O", "P", "Q", "R", "S", "T", "U", "V", "W", "X", "Y", "Z">>

Lowers == <<"a", "b", "c", "d", "e", "f", "g", "h", "i", "j", "k", "l", "m",
            "n", "o", "p", "q", "r", "s", "t", "u", "v", "w", "x", "y", "z">>

LowerChar(c) ==
    IF \E i \in 1..Len(Uppers) : Uppers[i] = c
    THEN Lowers[CHOOSE i \in 1..Len(Uppers) : Uppers[i] = c]
    ELSE c

\* str.lower()
Lower(s) == [i \in 1..Len(s) |-> LowerChar(s[i])]

IsSpace(c) == c \in {" ", "\t"}

RECURSIVE LStrip(_)
LStrip(s) ==
    IF s = <<>> THEN s
    ELSE IF IsSpace(Head(s)) THEN LStrip(Tail(s)) ELSE s

RECURSIVE RStrip(_)
RStrip(s) ==
    IF s = <<>> THEN s
    ELSE IF IsSpace(s[Len(s)]) THEN RStrip(SubSeq(s, 1, Len(s) - 1)) ELSE s

\* str.strip()
Strip(s) == RStrip(LStrip(s))

\* position of the first occurrence of character c in s, 0 when there is none
FirstIndex(s, c) ==
    IF \E i \in 1..Len(s) : s[i] = c
    THEN CHOOSE i \in 1..Len(s) : s[i] = c /\ \A j \in 1..(i - 1) : s[j] # c
    ELSE 0

\* s.split(c, 1): one part when c does not occur, else the parts around the
\* first occurrence
Split1(s, c) ==
    IF FirstIndex(s, c) = 0 THEN <<s>>
    ELSE <<SubSeq(s, 1, FirstIndex(s, c) - 1),
           SubSeq(s, FirstIndex(s, c) + 1, Len(s))>>

\* s.split(c)[0]
SplitFirst(s, c) ==
    IF FirstIndex(s, c) = 0 THEN s ELSE SubSeq(s, 1, FirstIndex(s, c) - 1)

\* the literals the code compares against
StrTrue == <<"t", "r", "u", "e">>

StrFalse == <<"f", "a", "l", "s", "e">>

StrBearer == <<"b", "e", "a", "r", "e", "r">>

StrUser == <<"u", "s", "e", "r">>

\* dict.get(key, default)
HeaderGet(headers, key, default) ==
    IF headers[key] = None THEN default ELSE headers[key][1]

(***************************************************************************)
(* api/strongly.py: get_user_from_headers                                  *)
(***************************************************************************)
StronglyUser(headers, user_id, email) ==
    [user_id       |-> user_id,
     email         |-> email,
     name          |-> Strip(HeaderGet(headers, "x_auth_user_name",
                                       SplitFirst(email, "@"))),
     app_role      |-> Strip(HeaderGet(headers, "x_auth_app_role", StrUser)),
     platform_role |-> Strip(HeaderGet(headers, "x_auth_platform_role", StrUser)),
     authenticated |-> Lower(HeaderGet(headers, "x_auth_authenticated", StrFalse))
                          = StrTrue]

\* faulty variant of get_user_from_headers: a user is built unless both the user id
\* and the email are empty
get_user_from_headers_Either(headers) ==
    LET user_id == Strip(HeaderGet(headers, "x_auth_user_id", <<>>))
        email   == Strip(HeaderGet(headers, "x_auth_user_email", <<>>))
    IN  IF user_id = <<>> /\ email = <<>>
        THEN None
        ELSE Some(StronglyUser(headers, user_id, email))

get_user_from_headers(headers) ==
    LET user_id == Strip(HeaderGet(headers, "x_auth_user_id", <<>>))
        email   == Strip(HeaderGet(headers, "x_auth_user_email", <<>>))
    IN  IF user_id = <<>> \/ email = <<>>
        THEN None
        ELSE Some(StronglyUser(headers, user_id, email))

(***************************************************************************)
(* State                                                                   *)
(***************************************************************************)
VARIABLES
    excluded_paths,  \* StronglyAuthMiddleware.excluded_paths
    strongly_mode,   \* StronglyAuthMiddleware.strongly_mode
    password,        \* StronglyAuthMiddleware.password (None when unset)
    request,         \* the request in flight (None between requests)
    response,        \* what dispatch returned for it (None until it has)
    state_user,      \* request.state.strongly_user of that request
    store,           \* the model table of the data store: a bag of records
    pass,            \* per handler invocation: the locals of
                     \* sync_models_from_gateway and where it stands
    delete_result,   \* status of the last DELETE /strongly/models (0: none)
    delete_log,      \* the table before and after the last DELETE
                     \* /strongly/models and whether the store failed in it
    last_pass,       \* the sync pass that returned last (None before any)
    env_services,    \* os.environ's STRONGLY_SERVICES
    cls_instance,    \* StronglyServices._instance: 0 for None, else the
                     \* position of the instance in instances
    instances,       \* the StronglyServices objects constructed so far
    caller,          \* per caller of get_strongly_services: where it stands
                     \* in __new__ and the instance it was given
    lookup,          \* the last get_service / get_database call and result
    fetched          \* the last fetch_available_models call: what the gateway
                     \* did, the outbound calls made, the value returned

authVars == <<excluded_paths, strongly_mode, password, request, response,
              state_user>>

syncVars == <<store, pass, delete_result, delete_log, last_pass>>

regVars == <<env_services, cls_instance, instances, caller, lookup, fetched>>

(***************************************************************************)
(* api/auth.py: StronglyAuthMiddleware                                     *)
(***************************************************************************)
DefaultExcludedPaths == {"/", "/health", "/docs", "/openapi.json", "/redoc"}

\* Python truthiness of an optional string: neither None nor ""
Truthy(opt) == opt # None /\ opt[1] # <<>>

\* call_next(request)
CallNext == [admitted |-> TRUE, status |-> 200, detail |-> "",
             challenge |-> FALSE]

\* JSONResponse(status_code=401, content={"detail": detail}[, headers=...])
Reject401(detail, challenge) ==
    [admitted |-> FALSE, status |-> 401, detail |-> detail,
     challenge |-> challenge]

\* faulty variant of PasswordAuth: the scheme is compared case-sensitively
PasswordAuth_CaseSensitive(pw, auth_header) ==
    IF ~Truthy(auth_header)
    THEN Reject401("Missing authorization header", TRUE)
    ELSE LET parts == Split1(auth_header[1], " ")
         IN  IF Len(parts) # 2 \/ parts[1] # StrBearer
             THEN Reject401("Invalid authorization header format", TRUE)
             ELSE IF parts[2] # pw
                  THEN Reject401("Invalid password", TRUE)
                  ELSE CallNext

\* faulty variant of PasswordAuth: the wrong-password response lacks the challenge
PasswordAuth_NoChallenge(pw, auth_header) ==
    IF ~Truthy(auth_header)
    THEN Reject401("Missing authorization header", TRUE)
    ELSE LET parts == Split1(auth_header[1], " ")
         IN  IF Len(parts) # 2 \/ Lower(parts[1]) # StrBearer
             THEN Reject401("Invalid authorization header format", TRUE)
             ELSE IF parts[2] # pw
                  THEN Reject401("Invalid password", FALSE)
                  ELSE CallNext

\* the password fallback of dispatch, reached with a configured password
PasswordAuth(pw, auth_header) ==
    IF ~Truthy(auth_header)
    THEN Reject401("Missing authorization header", TRUE)
    ELSE LET parts == Split1(auth_header[1], " ")
         IN  IF Len(parts) # 2 \/ Lower(parts[1]) # StrBearer
             THEN Reject401("Invalid authorization header format", TRUE)
             ELSE IF parts[2] # pw
                  THEN Reject401("Invalid password", TRUE)
                  ELSE CallNext

\* faulty variant of SkipAuth: preflight requests are not exempted
SkipAuth_PathOnly(excl, req) == req.path \in excl

\* the two early returns of dispatch: excluded path, CORS preflight
SkipAuth(excl, req) == req.path \in excl \/ req.method = "OPTIONS"

\* faulty variant of HeaderAuth: the authenticated flag is not looked at
HeaderAuth_NoFlagCheck(user) == [response |-> CallNext, user |-> Some(user)]

\* the branch of dispatch taken when get_user_from_headers gave a user
HeaderAuth(user) ==
    IF ~user.authenticated
    THEN [response |-> Reject401("User not authenticated", FALSE),
          user |-> None]
    ELSE [response |-> CallNext, user |-> Some(user)]

\* faulty variant of dispatch: a configured password is checked before the identity
\* headers are looked at
dispatch_PasswordFirst(excl, mode, pw, req) ==
    LET user == get_user_from_headers(req.headers)
        pwd  == PasswordAuth(pw[1], req.headers.authorization)
    IN  IF SkipAuth(excl, req)
        THEN [response |-> CallNext, user |-> None]
        ELSE IF Truthy(pw) /\ ~pwd.admitted
        THEN [response |-> pwd, user |-> None]
        ELSE IF user # None
        THEN HeaderAuth(user[1])
        ELSE IF mode
        THEN [response |-> Reject401("Missing Strongly.AI authentication headers",
                                     FALSE),
              user |-> None]
        ELSE [response |-> CallNext, user |-> None]

\* faulty variant of dispatch: registry-required mode is tested after the password
\* fallback instead of before it
dispatch_FallbackFirst(excl, mode, pw, req) ==
    LET user == get_user_from_headers(req.headers)
    IN  IF SkipAuth(excl, req)
        THEN [response |-> CallNext, user |-> None]
        ELSE IF user # None
        THEN HeaderAuth(user[1])
        ELSE IF Truthy(pw)
        THEN [response |-> PasswordAuth(pw[1], req.headers.authorization),
              user |-> None]
        ELSE IF mode
        THEN [response |-> Reject401("Missing Strongly.AI authentication headers",
                                     FALSE),
              user |-> None]
        ELSE [response |-> CallNext, user |-> None]

\* faulty variant of dispatch: the user read from the headers is attached
\* before the early returns
dispatch_AttachEarly(excl, mode, pw, req) ==
    LET user == get_user_from_headers(req.headers)
    IN  IF SkipAuth(excl, req)
        THEN [response |-> CallNext, user |-> user]
        ELSE IF user # None
        THEN HeaderAuth(user[1])
        ELSE IF mode
        THEN [response |-> Reject401("Missing Strongly.AI authentication headers",
                                     FALSE),
              user |-> None]
        ELSE IF Truthy(pw)
        THEN [response |-> PasswordAuth(pw[1], req.headers.authorization),
              user |-> None]
        ELSE [response |-> CallNext, user |-> None]

\* dispatch: the response and the user attached to request.state
dispatch(excl, mode, pw, req) ==
    LET user == get_user_from_headers(req.headers)
    IN  IF SkipAuth(excl, req)
        THEN [response |-> CallNext, user |-> None]
        ELSE IF user # None
        THEN HeaderAuth(user[1])
        ELSE IF mode
        THEN [response |-> Reject401("Missing Strongly.AI authentication headers",
                                     FALSE),
              user |-> None]
        ELSE IF Truthy(pw)
        THEN [response |-> PasswordAuth(pw[1], req.headers.authorization),
              user |-> None]
        ELSE [response |-> CallNext, user |-> None]

\* get_current_user: getattr(request.state, "strongly_user", None), attached
\* being the attribute if dispatch has set it
get_current_user(attached) == IF attached = None THEN None ELSE Some(attached[1])

(***************************************************************************)
(* Inputs: environment, constructor argument, requests                     *)
(***************************************************************************)
StrPw == <<"p", "w">>

EnvModes == {None, Some(<<"T", "r", "u", "e">>), Some(<<"1">>)}

EnvPasswords == {None, Some(<<>>), Some(StrPw)}

ExcludedArgs == {None, Some({}), Some({"/public"})}

Paths == {"/health", "/public", "/api/notes"}

Methods == {"GET", "OPTIONS"}

UserIdHeaders == {None, Some(<<" ">>), Some(<<"u", "1">>),
                  Some(<<" ", "u", "1", " ">>)}

EmailHeaders == {None, Some(<<>>), Some(<<"a", "@", "b", " ">>)}

NameHeaders == {None, Some(<<" ", "A", "l">>)}

RoleHeaders == {None, Some(<<"a", "d", "m", " ">>)}

AuthenticatedHeaders == {None, Some(<<"T", "R", "U", "E">>),
                         Some(<<"f", "a", "l", "s", "e">>),
                         Some(<<" ", "t", "r", "u", "e">>)}

AuthorizationHeaders ==
    {None,
     Some(<<>>),
     Some(<<"B", "e", "a", "r", "e", "r">>),
     Some(<<"B", "a", "s", "i", "c", " ", "p", "w">>),
     Some(<<"B", "e", "a", "r", "e", "r", " ", "p", "w">>),
     Some(<<"b", "E", "A", "R", "E", "R", " ", "p", "w">>),
     Some(<<"B", "e", "a", "r", "e", "r", " ", "p", "x">>),
     Some(<<"B", "e", "a", "r", "e", "r", " ", " ", "p", "w">>)}

\* the headers the code reads, by the lower-case name it looks them up with
Headers ==
    [x_auth_user_id       : UserIdHeaders,
     x_auth_user_email    : EmailHeaders,
     x_auth_user_name     : NameHeaders,
     x_auth_app_role      : RoleHeaders,
     x_auth_platform_role : RoleHeaders,
     x_auth_authenticated : AuthenticatedHeaders,
     authorization        : AuthorizationHeaders]

Requests == [path : Paths, method : Methods, headers : Headers]

\* StronglyAuthMiddleware.__init__
MiddlewareInit(arg, env_mode, env_password) ==
    /\ excluded_paths = (IF arg = None \/ arg[1] = {}
                         THEN DefaultExcludedPaths ELSE arg[1])
    /\ strongly_mode = (Lower(IF env_mode = None THEN StrFalse ELSE env_mode[1])
                           = StrTrue)
    /\ password = env_password

InitAuth ==
    /\ \E arg \in ExcludedArgs, m \in EnvModes, p \in EnvPasswords :
          MiddlewareInit(arg, m, p)
    /\ request = None
    /\ response = None
    /\ state_user = None

\* the server hands the next request to the middleware; requests are handled
\* one after another, each with a fresh request.state
Receive ==
    /\ request = None
    /\ \E req \in Requests : request' = Some(req)
    /\ UNCHANGED <<excluded_paths, strongly_mode, password, response,
                   state_user>>
    /\ UNCHANGED <<syncVars, regVars>>

\* StronglyAuthMiddleware.dispatch on the request in flight
Dispatch ==
    /\ request # None
    /\ response = None
    /\ LET d == dispatch(excluded_paths, strongly_mode, password, request[1])
       IN  /\ response' = Some(d.response)
           /\ state_user' = d.user
    /\ UNCHANGED <<excluded_paths, strongly_mode, password, request>>
    /\ UNCHANGED <<syncVars, regVars>>

\* the response is sent; the request and its state are discarded
Complete ==
    /\ response # None
    /\ request' = None
    /\ response' = None
    /\ state_user' = None
    /\ UNCHANGED <<excluded_paths, strongly_mode, password>>
    /\ UNCHANGED <<syncVars, regVars>>

NextAuth == Receive \/ Dispatch \/ Complete

(***************************************************************************)
(* JSON values as json.loads gives them, and the Python operations the     *)
(* registry applies to them.  A value is a record of its kind t and its    *)
(* content: s for a string, n for a number, items for a list, fields for   *)
(* a dict; the fields that are not of its kind stay empty.  An operation   *)
(* that raises gives the value Raised(exception).                          *)
(***************************************************************************)
\* None
JNull == [t |-> "null", s |-> <<>>, n |-> 0, items |-> <<>>,
          fields |-> [key \in {} |-> 0], exc |-> ""]

JStr(s) == [JNull EXCEPT !.t = "str", !.s = s]

JNum(n) == [JNull EXCEPT !.t = "num", !.n = n]

JList(seq) == [JNull EXCEPT !.t = "list", !.items = seq]

\* fields is a function from keys to values
JObj(fields) == [JNull EXCEPT !.t = "obj", !.fields = fields]

\* {}
JEmptyObj == [JNull EXCEPT !.t = "obj"]

Raised(exc) == [JNull EXCEPT !.t = "raise", !.exc = exc]

IsRaised(j) == j.t = "raise"

\* bool(x)
JTruthy(j) ==
    CASE j.t = "null" -> FALSE
      [] j.t = "str"  -> j.s # <<>>
      [] j.t = "num"  -> j.n # 0
      [] j.t = "list" -> j.items # <<>>
      [] j.t = "obj"  -> DOMAIN j.fields # {}
      [] OTHER        -> TRUE

\* x.get(key, default): only a dict has get
PyGet(j, key, default) ==
    IF IsRaised(j) THEN j
    ELSE IF j.t # "obj" THEN Raised("AttributeError")
    ELSE IF key \in DOMAIN j.fields THEN j.fields[key] ELSE default

\* len(x)
PyLen(j) ==
    CASE j.t = "str"  -> Len(j.s)
      [] j.t = "list" -> Len(j.items)
      [] j.t = "obj"  -> Cardinality(DOMAIN j.fields)
      [] OTHER -> -1

\* x[index] for an integer index: a list or a string counts a negative index
\* from its end, a dict has no integer keys
PyIndex(j, index) ==
    CASE j.t = "list" ->
            IF 0 <= index /\ index < Len(j.items) THEN j.items[index + 1]
            ELSE IF -Len(j.items) <= index /\ index < 0
                 THEN j.items[Len(j.items) + index + 1]
                 ELSE Raised("IndexError")
      [] j.t = "str" ->
            IF 0 <= index /\ index < Len(j.s) THEN JStr(<<j.s[index + 1]>>)
            ELSE IF -Len(j.s) <= index /\ index < 0
                 THEN JStr(<<j.s[Len(j.s) + index + 1]>>)
                 ELSE Raised("IndexError")
      [] j.t = "obj" -> Raised("KeyError")
      [] OTHER -> Raised("TypeError")

\* s.rstrip("/")
RECURSIVE RStripSlash(_)
RStripSlash(s) ==
    IF s = <<>> THEN s
    ELSE IF s[Len(s)] = "/" THEN RStripSlash(SubSeq(s, 1, Len(s) - 1)) ELSE s

(***************************************************************************)
(* api/strongly.py: StronglyServices                                       *)
(***************************************************************************)
\* the value of STRONGLY_SERVICES: unset (None), or a text that is empty,
\* is not JSON, or is the JSON text of a tree
RawEmpty == [text |-> "empty", tree |-> JNull]

RawMalformed == [text |-> "malformed", tree |-> JNull]

RawJson(tree) == [text |-> "json", tree |-> tree]

\* AIGatewayConfig(base_url=..., api_key=...)
AIGatewayConfig(base_url, api_key) ==
    [base_url |-> base_url, api_key |-> api_key]

\* an instance as super().__new__(cls) leaves it: the attributes are the
\* class attributes _services = {} and _ai_gateway = None.  loaded tells
\* that a _load_services on it has returned, raised names the exception a
\* _load_services on it let through ("" for none)
NewInstance ==
    [services |-> JEmptyObj, ai_gateway |-> None, loaded |-> FALSE,
     raised |-> ""]

\* faulty variant of parse_ai_gateway: the base_url is stored as it is given
parse_ai_gateway_NoStrip(services, old) ==
    LET svc      == PyGet(services, "services", JEmptyObj)
        gw       == PyGet(svc, "ai_gateway", JEmptyObj)
        base_url == PyGet(gw, "base_url", JStr(<<>>))
        api_key  == PyGet(gw, "api_key", JNull)
    IN  IF IsRaised(gw) \/ ~JTruthy(gw) THEN old
        ELSE IF IsRaised(base_url) \/ ~JTruthy(base_url) THEN old
        ELSE IF base_url.t # "str" THEN old
        ELSE Some(AIGatewayConfig(base_url.s, api_key))

\* _parse_ai_gateway: the value of _ai_gateway afterwards, old being its
\* value before; every exception is caught and leaves it as it was
parse_ai_gateway(services, old) ==
    LET svc      == PyGet(services, "services", JEmptyObj)
        gw       == PyGet(svc, "ai_gateway", JEmptyObj)
        base_url == PyGet(gw, "base_url", JStr(<<>>))
        api_key  == PyGet(gw, "api_key", JNull)
    IN  IF IsRaised(gw) \/ ~JTruthy(gw) THEN old
        ELSE IF IsRaised(base_url) \/ ~JTruthy(base_url) THEN old
        ELSE IF base_url.t # "str" THEN old
        ELSE Some(AIGatewayConfig(RStripSlash(base_url.s), api_key))

\* faulty variant of load_services: the error of json.loads is let through
load_services_NoCatch(inst, env) ==
    IF env = None \/ env[1].text = "empty"
    THEN [inst EXCEPT !.services = JEmptyObj, !.loaded = TRUE]
    ELSE IF env[1].text = "malformed"
    THEN [inst EXCEPT !.raised = "JSONDecodeError"]
    ELSE [inst EXCEPT !.services = env[1].tree, !.loaded = TRUE,
                      !.ai_gateway = parse_ai_gateway(env[1].tree, @)]

\* _load_services on an instance, env being os.environ's STRONGLY_SERVICES;
\* json.JSONDecodeError is caught, _parse_ai_gateway catches every Exception
load_services(inst, env) ==
    IF env = None \/ env[1].text = "empty"
    THEN [inst EXCEPT !.services = JEmptyObj, !.loaded = TRUE]
    ELSE IF env[1].text = "malformed"
    THEN [inst EXCEPT !.services = JEmptyObj, !.loaded = TRUE]
    ELSE [inst EXCEPT !.services = env[1].tree, !.loaded = TRUE,
                      !.ai_gateway = parse_ai_gateway(env[1].tree, @)]

\* the property is_configured
is_configured(inst) == inst.ai_gateway # None

\* get_service(service_name): a value, None (JNull) or a raised exception
get_service(inst, service_name) ==
    PyGet(PyGet(inst.services, "services", JEmptyObj), service_name, JNull)

\* faulty variant of get_database: the length is not compared with the index
get_database_NoBound(inst, db_type, index) ==
    LET databases == PyGet(PyGet(inst.services, "services", JEmptyObj),
                           "databases", JEmptyObj)
        db_list   == PyGet(databases, db_type, JList(<<>>))
    IN  IF IsRaised(db_list) THEN db_list
        ELSE IF ~JTruthy(db_list) THEN JNull
        ELSE PyIndex(db_list, index)

\* get_database(db_type, index)
get_database(inst, db_type, index) ==
    LET databases == PyGet(PyGet(inst.services, "services", JEmptyObj),
                           "databases", JEmptyObj)
        db_list   == PyGet(databases, db_type, JList(<<>>))
    IN  IF IsRaised(db_list) THEN db_list
        ELSE IF ~JTruthy(db_list) THEN JNull
        ELSE IF PyLen(db_list) < 0 THEN Raised("TypeError")
        ELSE IF PyLen(db_list) > index THEN PyIndex(db_list, index)
        ELSE JNull

(***************************************************************************)
(* Inputs of the registry                                                  *)
(***************************************************************************)
Callers == {1, 2}

Db1 == JObj("host" :> JStr(<<"m", "1">>))

Db2 == JObj("host" :> JStr(<<"m", "2">>))

\* a registry with a gateway (trailing slash, api key), two databases of one
\* type, none of another, and one more service
TreeFull ==
    JObj("services" :>
        JObj(("ai_gateway" :> JObj(("base_url" :> JStr(<<"h", "/">>))
                                   @@ ("api_key" :> JStr(<<"k">>))))
             @@ ("databases" :> JObj(("mongodb" :> JList(<<Db1, Db2>>))
                                     @@ ("postgresql" :> JList(<<>>))))
             @@ ("cache" :> JObj("port" :> JNum(6379)))))

\* a registry whose gateway has the given base_url and no api key, and one
\* database
TreeGateway(base_url) ==
    JObj("services" :>
        JObj(("ai_gateway" :> JObj("base_url" :> base_url))
             @@ ("databases" :> JObj("mongodb" :> JList(<<Db1>>)))))

\* well-formed JSON that is not of the documented shape
TreeOffSchema ==
    JObj("services" :>
        JObj(("ai_gateway" :> JStr(<<"h">>))
             @@ ("databases" :> JList(<<Db1>>))))

\* 'services' is not an object
TreeServicesNotObject == JObj("services" :> JStr(<<"x">>))

\* database types mapped to an object, a number and a string instead of a list
TreeDbNotList ==
    JObj("services" :>
        JObj("databases" :> JObj(("mongodb" :> Db1)
                                 @@ ("postgresql" :> JNum(5))
                                 @@ ("redis" :> JStr(<<"r">>)))))

RegistryTrees ==
    {TreeFull,
     TreeGateway(JStr(<<"h">>)),
     TreeGateway(JStr(<<"h", "/", "/">>)),
     TreeGateway(JStr(<<"/">>)),
     TreeGateway(JStr(<<>>)),
     TreeGateway(JNull),
     JObj("services" :> JObj("ai_gateway" :> JEmptyObj)),
     JObj("services" :> JEmptyObj),
     JEmptyObj,
     TreeOffSchema,
     TreeServicesNotObject,
     TreeDbNotList,
     JList(<<JNum(1)>>),
     JNull}

EnvServices ==
    {None, Some(RawEmpty), Some(RawMalformed)}
        \cup { Some(RawJson(tree)) : tree \in RegistryTrees }

ServiceNames == {"ai_gateway", "databases", "cache", "queue"}

DbTypes == {"mongodb", "postgresql", "redis"}

DbIndexes == -3..2

\* a caller outside get_strongly_services
IdleCaller == [pc |-> "idle", inst |-> 0, saw_loaded |-> FALSE]

NoLookup == [op |-> "none", inst |-> 0, name |-> "", index |-> 0,
             result |-> JNull]

\* what the gateway does with GET {base_url}/v1/models: the connection
\* fails, the 30 s timeout passes, the status is not 2xx, the body is not
\* JSON, or the status is 2xx and the body is the given JSON
GatewayBodies ==
    {JObj("data" :> JList(<<JObj("id" :> JStr(<<"g">>))>>)),
     JObj("data" :> JList(<<>>)),
     JObj("object" :> JStr(<<"l">>)),
     JObj("data" :> JNull),
     JObj("data" :> JNum(3)),
     JList(<<JObj("id" :> JStr(<<"g">>))>>)}

GatewayOutcomes ==
    { [kind |-> k, body |-> JNull] :
        k \in {"transport", "timeout", "status", "not_json"} }
        \cup { [kind |-> "ok", body |-> b] : b \in GatewayBodies }

NoFetch == [op |-> "none", inst |-> 0, calls |-> 0,
            outcome |-> [kind |-> "none", body |-> JNull], result |-> JNull]

\* faulty variant of fetch_available_models: a status that is not 2xx is let
\* through
fetch_available_models_NoCatch(inst, outcome) ==
    IF inst.ai_gateway = None
    THEN [calls |-> 0, result |-> JList(<<>>)]
    ELSE IF outcome.kind = "status"
    THEN [calls |-> 1, result |-> Raised("HTTPStatusError")]
    ELSE IF outcome.kind # "ok"
    THEN [calls |-> 1, result |-> JList(<<>>)]
    ELSE LET models == PyGet(outcome.body, "data", JList(<<>>))
         IN  IF IsRaised(models) \/ PyLen(models) < 0
             THEN [calls |-> 1, result |-> JList(<<>>)]
             ELSE [calls |-> 1, result |-> models]

\* fetch_available_models on the registry inst, the gateway answering with
\* outcome: the outbound calls made and the value returned.  The failures of
\* client.get and raise_for_status are httpx.HTTPError, those of
\* response.json, data.get and len(models) are caught as Exception
fetch_available_models(inst, outcome) ==
    IF inst.ai_gateway = None
    THEN [calls |-> 0, result |-> JList(<<>>)]
    ELSE IF outcome.kind # "ok"
    THEN [calls |-> 1, result |-> JList(<<>>)]
    ELSE LET models == PyGet(outcome.body, "data", JList(<<>>))
         IN  IF IsRaised(models) \/ PyLen(models) < 0
             THEN [calls |-> 1, result |-> JList(<<>>)]
             ELSE [calls |-> 1, result |-> models]

\* no registry yet, STRONGLY_SERVICES as given
RegistryStart(env) ==
    /\ env_services = env
    /\ cls_instance = 0
    /\ instances = <<>>
    /\ caller = [t \in Callers |-> IdleCaller]
    /\ lookup = NoLookup
    /\ fetched = NoFetch

InitRegistry == \E env \in EnvServices : RegistryStart(env)

\* the registry untouched and STRONGLY_SERVICES unset
RegIdle == RegistryStart(None)

(***************************************************************************)
(* StronglyServices.__new__, statement by statement, for caller t          *)
(***************************************************************************)
\* if cls._instance is None
NewCheck(t) ==
    /\ caller[t].pc = "idle"
    /\ caller' = [caller EXCEPT ![t].pc = IF cls_instance = 0
                                          THEN "construct" ELSE "return"]
    /\ UNCHANGED <<env_services, cls_instance, instances, lookup>>
    /\ UNCHANGED <<authVars, syncVars, fetched>>

\* cls._instance = super().__new__(cls)
NewConstruct(t) ==
    /\ caller[t].pc = "construct"
    /\ instances' = Append(instances, NewInstance)
    /\ cls_instance' = Len(instances) + 1
    /\ caller' = [caller EXCEPT ![t].pc = "load"]
    /\ UNCHANGED <<env_services, lookup>>
    /\ UNCHANGED <<authVars, syncVars, fetched>>

\* cls._instance._load_services()
NewLoad(t) ==
    /\ caller[t].pc = "load"
    /\ instances' = [instances EXCEPT ![cls_instance] =
                        load_services(@, env_services)]
    /\ caller' = [caller EXCEPT ![t].pc = "return"]
    /\ UNCHANGED <<env_services, cls_instance, lookup>>
    /\ UNCHANGED <<authVars, syncVars, fetched>>

\* return cls._instance; saw_loaded notes whether its load had completed
NewReturn(t) ==
    /\ caller[t].pc = "return"
    /\ caller' = [caller EXCEPT ![t] =
                     [pc |-> "got", inst |-> cls_instance,
                      saw_loaded |-> instances[cls_instance].loaded]]
    /\ UNCHANGED <<env_services, cls_instance, instances, lookup>>
    /\ UNCHANGED <<authVars, syncVars, fetched>>

\* services.get_service(name) by a caller holding the registry
GetService(t) ==
    /\ caller[t].pc = "got"
    /\ \E name \in ServiceNames :
          lookup' = [op |-> "get_service", inst |-> caller[t].inst,
                     name |-> name, index |-> 0,
                     result |-> get_service(instances[caller[t].inst], name)]
    /\ UNCHANGED <<env_services, cls_instance, instances, caller>>
    /\ UNCHANGED <<authVars, syncVars, fetched>>

\* services.get_database(db_type, index) by a caller holding the registry
GetDatabase(t) ==
    /\ caller[t].pc = "got"
    /\ \E db_type \in DbTypes, index \in DbIndexes :
          lookup' = [op |-> "get_database", inst |-> caller[t].inst,
                     name |-> db_type, index |-> index,
                     result |-> get_database(instances[caller[t].inst],
                                             db_type, index)]
    /\ UNCHANGED <<env_services, cls_instance, instances, caller>>
    /\ UNCHANGED <<authVars, syncVars, fetched>>

\* the caller is done with the registry
Release(t) ==
    /\ caller[t].pc = "got"
    /\ caller' = [caller EXCEPT ![t] = IdleCaller]
    /\ UNCHANGED <<env_services, cls_instance, instances, lookup>>
    /\ UNCHANGED <<authVars, syncVars, fetched>>

\* await fetch_available_models() by a caller holding the registry
Fetch(t) ==
    /\ caller[t].pc = "got"
    /\ \E outcome \in GatewayOutcomes :
          LET r == fetch_available_models(instances[caller[t].inst], outcome)
          IN  fetched' = [op |-> "fetch", inst |-> caller[t].inst,
                          calls |-> r.calls, outcome |-> outcome,
                          result |-> r.result]
    /\ UNCHANGED <<env_services, cls_instance, instances, caller, lookup>>
    /\ UNCHANGED <<authVars, syncVars>>

\* STRONGLY_SERVICES is changed and _load_services is run again on the
\* registry the caller holds
Reload(t) ==
    /\ caller[t].pc = "got"
    /\ \E env \in EnvServices :
          /\ env_services' = env
          /\ instances' = [instances EXCEPT ![caller[t].inst] =
                              load_services(@, env)]
    /\ UNCHANGED <<cls_instance, caller, lookup>>
    /\ UNCHANGED <<authVars, syncVars, fetched>>

(***************************************************************************)
(* The data store (open_notebook.database.repository.repo_query and        *)
(* open_notebook.domain.models.Model): a table of model records that does  *)
(* not itself enforce uniqueness.                                          *)
(***************************************************************************)
\* SELECT * FROM model WHERE name = $name AND provider = $provider
repo_query_select(table, name, provider) ==
    { rec \in BagToSet(table) : rec.name = name /\ rec.provider = provider }

\* DELETE FROM model WHERE provider = $provider: the table that remains
repo_query_delete(table, provider) ==
    [rec \in { r \in BagToSet(table) : r.provider # provider }
        |-> CopiesIn(rec, table)]

\* Model.save() of a record without an id: one more row
ModelSave(table, rec) == table (+) SetToBag({rec})

(***************************************************************************)
(* api/routers/strongly.py: sync_models_from_gateway                       *)
(***************************************************************************)
StrEmbed == <<"e", "m", "b", "e", "d">>

StrTts == <<"t", "t", "s">>

StrSpeech == <<"s", "p", "e", "e", "c", "h">>

StrStt == <<"s", "t", "t">>

StrWhisper == <<"w", "h", "i", "s", "p", "e", "r">>

\* sub in s
Contains(sub, s) ==
    \E i \in 1..(Len(s) - Len(sub) + 1) : SubSeq(s, i, i + Len(sub) - 1) = sub

\* faulty variant of model_type: the speech patterns are tried before "embed"
model_type_SpeechFirst(model_id) ==
    IF Contains(StrTts, Lower(model_id))
          \/ Contains(StrSpeech, Lower(model_id)) THEN "text_to_speech"
    ELSE IF Contains(StrEmbed, Lower(model_id)) THEN "embedding"
    ELSE IF Contains(StrStt, Lower(model_id))
              \/ Contains(StrWhisper, Lower(model_id)) THEN "speech_to_text"
    ELSE "language"

\* the model type chosen from the id
model_type(model_id) ==
    IF Contains(StrEmbed, Lower(model_id)) THEN "embedding"
    ELSE IF Contains(StrTts, Lower(model_id))
              \/ Contains(StrSpeech, Lower(model_id)) THEN "text_to_speech"
    ELSE IF Contains(StrStt, Lower(model_id))
              \/ Contains(StrWhisper, Lower(model_id)) THEN "speech_to_text"
    ELSE "language"

\* gw_model.get("id", "")
model_id_of(gw_model) == IF gw_model.id = None THEN <<>> ELSE gw_model.id[1]

\* Model(name=model_id, provider="openai_compatible", type=model_type)
Model(model_id) ==
    [name |-> model_id, provider |-> "openai_compatible",
     type |-> model_type(model_id)]

\* faulty variant of existing: the existence query names another provider
existing_OtherProvider(table, model_id) ==
    repo_query_select(table, model_id, "openai")

\* the existence query of the loop
existing(table, model_id) ==
    repo_query_select(table, model_id, "openai_compatible")

\* SyncResult(synced=..., skipped=..., errors=..., models=...)
SyncResult(r) ==
    [status |-> 200, synced |-> r.synced, skipped |-> r.skipped,
     errors |-> r.errors, models |-> r.synced_models]

\* HTTPException(status_code=...)
HttpError(status) ==
    [status |-> status, synced |-> 0, skipped |-> 0, errors |-> 0,
     models |-> <<>>]

\* a handler that is not running
IdlePass ==
    [pc |-> "idle", gateway_models |-> <<>>, idx |-> 1,
     synced |-> 0, skipped |-> 0, errors |-> 0, synced_models |-> <<>>,
     result |-> None, outcome |-> <<>>, store0 |-> EmptyBag]

\* the for loop from descriptor r.idx on, up to its next suspension point:
\* descriptors without an id are passed over, the first one with an id is
\* queried next, and past the last descriptor the handler returns.
\* r.outcome notes, per descriptor, what became of it.
RECURSIVE Loop(_)
Loop(r) ==
    IF r.idx > Len(r.gateway_models)
    THEN [r EXCEPT !.pc = "done", !.result = Some(SyncResult(r))]
    ELSE IF model_id_of(r.gateway_models[r.idx]) = <<>>
    THEN Loop([r EXCEPT !.idx = @ + 1, !.outcome = Append(@, "unnamed")])
    ELSE [r EXCEPT !.pc = "query"]

\* faulty variant of Except: the error ends the pass with a 500
Except_Abort(r) ==
    [r EXCEPT !.pc = "done", !.result = Some(HttpError(500)),
              !.outcome = Append(@, "error")]

\* the except clause: count the error, go on with the next descriptor
Except(r) ==
    Loop([r EXCEPT !.errors = @ + 1, !.idx = @ + 1,
                   !.outcome = Append(@, "error")])

\* faulty variant of QueryStep: an existing record is counted but not passed over
QueryStep_NoContinue(r, table, fail) ==
    IF fail THEN Except(r)
    ELSE IF existing(table, model_id_of(r.gateway_models[r.idx])) # {}
    THEN [r EXCEPT !.skipped = @ + 1, !.pc = "save"]
    ELSE [r EXCEPT !.pc = "save"]

\* the existence query returns (or raises, when fail)
QueryStep(r, table, fail) ==
    IF fail THEN Except(r)
    ELSE IF existing(table, model_id_of(r.gateway_models[r.idx])) # {}
    THEN Loop([r EXCEPT !.skipped = @ + 1, !.idx = @ + 1,
                        !.outcome = Append(@, "skipped")])
    ELSE [r EXCEPT !.pc = "save"]

\* model.save() returns (or raises, when fail)
SaveStep(r, fail) ==
    IF fail THEN Except(r)
    ELSE Loop([r EXCEPT !.synced = @ + 1, !.idx = @ + 1,
                        !.synced_models =
                            Append(@, model_id_of(r.gateway_models[r.idx])),
                        !.outcome = Append(@, "synced")])

(***************************************************************************)
(* Inputs of the sync handlers                                             *)
(***************************************************************************)
MaxRemote == 2

Procs == {1, 2}

IdA == <<"E", "m", "b", "-", "t", "t", "s">>

IdB == <<"g", "p", "t">>

\* descriptors of the gateway: without an id, with an empty id, with an id
Descriptors == {[id |-> None], [id |-> Some(<<>>)], [id |-> Some(IdA)],
                [id |-> Some(IdB)]}

RemoteLists == UNION { [1..n -> Descriptors] : n \in 0..MaxRemote }

\* no DELETE /strongly/models so far
NoDelete ==
    [acted |-> FALSE, failed |-> FALSE, before |-> EmptyBag,
     after |-> EmptyBag]

\* tables the handlers may find: at most one record per (name, provider)
InitStores ==
    { SetToBag(recs) :
        recs \in SUBSET {[name |-> IdA, provider |-> "openai_compatible",
                          type |-> "language"],
                         [name |-> IdA, provider |-> "ollama",
                          type |-> "language"]} }

InitSync ==
    /\ store \in InitStores
    /\ pass = [p \in Procs |-> IdlePass]
    /\ delete_result = 0
    /\ delete_log = NoDelete
    /\ last_pass = None

\* POST /strongly/sync-models up to the first store query: the 503 of an
\* unconfigured gateway, else the fetched list and the start of the loop;
\* Configured and Lists are what is_configured and the gateway may answer
SyncStartOn(p, Configured, Lists) ==
    /\ pass[p].pc = "idle"
    /\ \E configured \in Configured, remote \in Lists :
          pass' = [pass EXCEPT ![p] =
                      IF ~configured
                      THEN [IdlePass EXCEPT !.pc = "done",
                                            !.result = Some(HttpError(503)),
                                            !.store0 = store]
                      ELSE Loop([IdlePass EXCEPT !.gateway_models = remote,
                                                 !.store0 = store])]
    /\ UNCHANGED <<store, delete_result, delete_log, last_pass>>
    /\ UNCHANGED <<authVars, regVars>>

\* the same with any answer of is_configured and any list of RemoteLists
SyncStart(p) == SyncStartOn(p, BOOLEAN, RemoteLists)

\* await repo_query(SELECT ...) and the code up to the next suspension point;
\* Fails says whether the store may raise
SyncQuery(p, Fails) ==
    /\ pass[p].pc = "query"
    /\ \E fail \in Fails :
          pass' = [pass EXCEPT ![p] = QueryStep(pass[p], store, fail)]
    /\ UNCHANGED <<store, delete_result, delete_log, last_pass>>
    /\ UNCHANGED <<authVars, regVars>>

\* await model.save() and the code up to the next suspension point
SyncSave(p, Fails) ==
    /\ pass[p].pc = "save"
    /\ \E fail \in Fails :
          /\ pass' = [pass EXCEPT ![p] = SaveStep(pass[p], fail)]
          /\ store' = IF fail THEN store
                      ELSE ModelSave(store,
                             Model(model_id_of(
                                 pass[p].gateway_models[pass[p].idx])))
    /\ UNCHANGED <<delete_result, delete_log, last_pass>>
    /\ UNCHANGED <<authVars, regVars>>

\* the response of the handler is sent; with keep, a pass that ran is
\* remembered in last_pass
SyncReturn(p, keep) ==
    /\ pass[p].pc = "done"
    /\ pass' = [pass EXCEPT ![p] = IdlePass]
    /\ last_pass' = IF keep /\ pass[p].result[1].status = 200
                    THEN Some([remote |-> pass[p].gateway_models,
                               result |-> pass[p].result[1],
                               outcome |-> pass[p].outcome,
                               store_before |-> pass[p].store0,
                               store_after |-> store])
                    ELSE last_pass
    /\ UNCHANGED <<store, delete_result, delete_log>>
    /\ UNCHANGED <<authVars, regVars>>

\* faulty variant of DeleteModelsOn: the records of another provider are
\* deleted
DeleteModelsOn_OtherProvider(Fails, log) ==
    /\ \A p \in Procs : pass[p].pc = "idle"
    /\ \E fail \in Fails :
          LET after == IF fail THEN store
                       ELSE repo_query_delete(store, "ollama")
          IN  /\ store' = after
              /\ delete_result' = IF fail THEN 500 ELSE 200
              /\ delete_log' = IF log
                               THEN [acted |-> TRUE, failed |-> fail,
                                     before |-> store, after |-> after]
                               ELSE delete_log
    /\ UNCHANGED <<pass, last_pass>>
    /\ UNCHANGED <<authVars, regVars>>

\* DELETE /strongly/models: every exception of the store becomes a 500; with
\* log, the request is noted in delete_log
DeleteModelsOn(Fails, log) ==
    /\ \A p \in Procs : pass[p].pc = "idle"
    /\ \E fail \in Fails :
          LET after == IF fail THEN store
                       ELSE repo_query_delete(store, "openai_compatible")
          IN  /\ store' = after
              /\ delete_result' = IF fail THEN 500 ELSE 200
              /\ delete_log' = IF log
                               THEN [acted |-> TRUE, failed |-> fail,
                                     before |-> store, after |-> after]
                               ELSE delete_log
    /\ UNCHANGED <<pass, last_pass>>
    /\ UNCHANGED <<authVars, regVars>>

\* the same without the note
DeleteModels(Fails) == DeleteModelsOn(Fails, FALSE)

\* the middleware as constructed with no argument and an empty environment
AuthIdle ==
    /\ MiddlewareInit(None, None, None)
    /\ request = None
    /\ response = None
    /\ state_user = None

\* the sync handlers at rest on an empty table
SyncIdle ==
    /\ store = EmptyBag
    /\ pass = [p \in Procs |-> IdlePass]
    /\ delete_result = 0
    /\ delete_log = NoDelete
    /\ last_pass = None

vars == <<authVars, syncVars, regVars>>

Init == InitAuth /\ SyncIdle /\ RegIdle

SpecAuth == Init /\ [][NextAuth]_vars

\* the reconciler on any of the initial tables, the middleware at rest
InitReconciler == AuthIdle /\ InitSync /\ RegIdle

\* sync passes and deletions, one request at a time, on a store that may fail
NextSync ==
    \/ SyncStart(1)
    \/ SyncQuery(1, BOOLEAN)
    \/ SyncSave(1, BOOLEAN)
    \/ SyncReturn(1, FALSE)
    \/ DeleteModelsOn(BOOLEAN, TRUE)

SpecSync == InitReconciler /\ [][NextSync]_vars

\* the same on a store that never fails, remembering the previous pass
NextResync ==
    \/ SyncStart(1)
    \/ SyncQuery(1, {FALSE})
    \/ SyncSave(1, {FALSE})
    \/ SyncReturn(1, TRUE)
    \/ DeleteModels({FALSE})

SpecResync == InitReconciler /\ [][NextResync]_vars

\* two handlers of POST /strongly/sync-models in flight at once, interleaved
\* at their awaits, on a store that never fails
NextConcurrent ==
    \E p \in Procs :
        \/ SyncStart(p)
        \/ SyncQuery(p, {FALSE})
        \/ SyncSave(p, {FALSE})
        \/ SyncReturn(p, FALSE)

SpecConcurrent == InitReconciler /\ [][NextConcurrent]_vars

\* ids that meet the name patterns of the classification in several ways
ClassifyIds ==
    {IdA,
     IdB,
     <<"t", "e", "x", "t", "-", "e", "m", "b", "e", "d", "d", "i", "n", "g">>,
     <<"T", "T", "S", "-", "1">>,
     <<"s", "t", "t", "s">>,
     <<"S", "p", "e", "e", "c", "h", "-", "s", "t", "t">>,
     <<"w", "h", "i", "s", "p", "e", "r", "-", "1">>,
     <<"W", "h", "i", "s", "p", "e", "r", "-", "e", "m", "b", "e", "d">>,
     <<"t", "t", "s", "-", "E", "m", "b", "e", "d">>}

\* gateway lists of one descriptor with such an id
ClassifyLists == { <<[id |-> Some(id)]>> : id \in ClassifyIds }

\* everything at rest, the table empty
InitClassify == AuthIdle /\ SyncIdle /\ RegIdle

\* sync passes that each bring one of these ids, on a store that never fails
NextClassify ==
    \/ SyncStartOn(1, {TRUE}, ClassifyLists)
    \/ SyncQuery(1, {FALSE})
    \/ SyncSave(1, {FALSE})
    \/ SyncReturn(1, FALSE)

SpecClassify == InitClassify /\ [][NextClassify]_vars

\* the registry on any STRONGLY_SERVICES, everything else at rest
InitLookup == AuthIdle /\ SyncIdle /\ InitRegistry

\* one caller at a time gets the registry and looks services up in it
NextRegistry ==
    \/ NewCheck(1)
    \/ NewConstruct(1)
    \/ NewLoad(1)
    \/ NewReturn(1)
    \/ GetService(1)
    \/ GetDatabase(1)
    \/ Release(1)

SpecRegistry == InitLookup /\ [][NextRegistry]_vars

\* the same with STRONGLY_SERVICES changed and loaded again in between
NextReload == NextRegistry \/ Reload(1)

SpecReload == InitLookup /\ [][NextReload]_vars

\* one caller at a time gets the registry and fetches the gateway's models
NextFetch ==
    \/ NewCheck(1)
    \/ NewConstruct(1)
    \/ NewLoad(1)
    \/ NewReturn(1)
    \/ Fetch(1)
    \/ Release(1)

SpecFetch == InitLookup /\ [][NextFetch]_vars

\* several callers get the registry, their statements interleaved
NextSingleton ==
    \E t \in Callers :
        \/ NewCheck(t)
        \/ NewConstruct(t)
        \/ NewLoad(t)
        \/ NewReturn(t)
        \/ Release(t)

SpecSingleton == InitLookup /\ [][NextSingleton]_vars

(***************************************************************************)
(* Properties of the authentication decision                               *)
(***************************************************************************)
\* dispatch has answered the request in flight
Handled == request # None /\ response # None

\* ... and neither early return applied to it
Guarded ==
    /\ Handled
    /\ request[1].path \notin excluded_paths
    /\ request[1].method # "OPTIONS"

\* a header that is missing or holds nothing but white space
Blank(opt) == opt = None \/ \A i \in 1..Len(opt[1]) : IsSpace(opt[1][i])

\* the headers identify no user
NoIdentity(h) == Blank(h.x_auth_user_id) \/ Blank(h.x_auth_user_email)

\* the x-auth-authenticated header says true
FlagTrue(h) ==
    /\ h.x_auth_authenticated # None
    /\ Lower(h.x_auth_authenticated[1]) = StrTrue

\* the Authorization header is "<bearer in any case> <the password>"
BearerMatches(h) ==
    /\ Truthy(password)
    /\ h.authorization # None
    /\ Len(Split1(h.authorization[1], " ")) = 2
    /\ Lower(Split1(h.authorization[1], " ")[1]) = StrBearer
    /\ Split1(h.authorization[1], " ")[2] = password[1]

Is401(r) == ~r.admitted /\ r.status = 401

\* C1: a request on an excluded path, or with method OPTIONS, is forwarded to
\* the next handler whatever its headers, strongly_mode and the password are.
C1_ExemptAdmitted ==
    (Handled /\ (request[1].path \in excluded_paths
                   \/ request[1].method = "OPTIONS"))
        => response[1].admitted

\* a preflight request on a protected path, without identity or credentials,
\* in registry-required mode with a password configured, was forwarded
C1_Witness ==
    /\ Handled
    /\ request[1].method = "OPTIONS"
    /\ request[1].path \notin excluded_paths
    /\ NoIdentity(request[1].headers)
    /\ request[1].headers.authorization = None
    /\ strongly_mode
    /\ Truthy(password)
    /\ response[1].admitted

\* C2: on a protected path, identity headers with a user id and an email but
\* without authenticated=true are answered 401 in every configuration, also
\* when the bearer token equals the configured password.
C2_UnauthenticatedRejected ==
    (Guarded /\ ~NoIdentity(request[1].headers) /\ ~FlagTrue(request[1].headers))
        => /\ Is401(response[1])
           /\ response[1].detail = "User not authenticated"

\* an unauthenticated identity was rejected although the password matched
C2_Witness ==
    /\ Guarded
    /\ ~NoIdentity(request[1].headers)
    /\ ~FlagTrue(request[1].headers)
    /\ ~strongly_mode
    /\ BearerMatches(request[1].headers)
    /\ Is401(response[1])

\* C3: in registry-required mode a request on a protected path without
\* identity is answered 401 for the missing headers, whether or not a password
\* is configured or matched; the password fallback is not reached.
C3_StronglyModeNoFallback ==
    (Guarded /\ strongly_mode /\ NoIdentity(request[1].headers))
        => /\ Is401(response[1])
           /\ response[1].detail = "Missing Strongly.AI authentication headers"
           /\ ~response[1].challenge

\* registry-required mode rejected a request whose bearer token matched
C3_Witness ==
    /\ Guarded
    /\ strongly_mode
    /\ NoIdentity(request[1].headers)
    /\ BearerMatches(request[1].headers)
    /\ Is401(response[1])

\* the password fallback decides: no identity, mode off, password configured
PasswordCase ==
    /\ Guarded
    /\ NoIdentity(request[1].headers)
    /\ ~strongly_mode
    /\ Truthy(password)

\* the header is not of the form "<bearer in any case><space><token>"
Malformed(a) ==
    \/ Len(Split1(a, " ")) # 2
    \/ Lower(Split1(a, " ")[1]) # StrBearer

\* the outcome the password fallback must give for Authorization header a,
\* where missing(a) says which headers count as missing
PasswordOutcome(a, missing) ==
    IF missing
    THEN Is401(response[1]) /\ response[1].detail = "Missing authorization header"
    ELSE IF Malformed(a[1])
    THEN /\ Is401(response[1])
         /\ response[1].detail = "Invalid authorization header format"
    ELSE IF Split1(a[1], " ")[2] # password[1]
    THEN Is401(response[1]) /\ response[1].detail = "Invalid password"
    ELSE response[1].admitted

\* C4 as stated: an absent header is 'Missing authorization header', every
\* header without a space or with another scheme is 'Invalid authorization
\* header format', a wrong token is 'Invalid password', a right one is admitted.
C4_Original ==
    PasswordCase
        => PasswordOutcome(request[1].headers.authorization,
                           request[1].headers.authorization = None)

\* C4 amended: an absent or empty header is 'Missing authorization header';
\* a non-empty header without a space or with another scheme is 'Invalid
\* authorization header format'; a wrong token is 'Invalid password'; a right
\* one is admitted.
C4_PasswordDecision ==
    PasswordCase
        => PasswordOutcome(request[1].headers.authorization,
                           ~Truthy(request[1].headers.authorization))

\* the fallback admitted a token sent with the scheme in another case
C4_Witness ==
    /\ PasswordCase
    /\ BearerMatches(request[1].headers)
    /\ Split1(request[1].headers.authorization[1], " ")[1] # StrBearer
    /\ response[1].admitted

\* C5: on a protected path, identity headers with a user id, an email and
\* authenticated=true are admitted with that identity in every configuration
\* and whatever the Authorization header holds.
C5_HeaderIdentityFirst ==
    (Guarded /\ ~NoIdentity(request[1].headers) /\ FlagTrue(request[1].headers))
        => /\ response[1].admitted
           /\ state_user # None
           /\ state_user[1].user_id = Strip(request[1].headers.x_auth_user_id[1])
           /\ state_user[1].email = Strip(request[1].headers.x_auth_user_email[1])
           /\ state_user[1].authenticated

\* an authenticated identity was admitted with a password configured and a
\* bearer token that does not match it
C5_Witness ==
    /\ Guarded
    /\ ~NoIdentity(request[1].headers)
    /\ FlagTrue(request[1].headers)
    /\ Truthy(password)
    /\ request[1].headers.authorization # None
    /\ ~BearerMatches(request[1].headers)
    /\ response[1].admitted
    /\ state_user # None

BearerDetails == {"Missing authorization header",
                  "Invalid authorization header format",
                  "Invalid password"}

IdentityDetails == {"User not authenticated",
                    "Missing Strongly.AI authentication headers"}

\* C6: a 401 caused by the bearer credential carries WWW-Authenticate: Bearer,
\* a 401 caused by the identity headers does not.
C6_ChallengeOnBearerOnly ==
    (Handled /\ Is401(response[1]))
        => /\ Guarded
           /\ response[1].detail \in BearerDetails \cup IdentityDetails
           /\ response[1].challenge <=> response[1].detail \in BearerDetails
           /\ response[1].detail \in BearerDetails <=> PasswordCase

\* a wrong bearer token was rejected with the challenge
C6_Witness ==
    /\ PasswordCase
    /\ response[1].detail = "Invalid password"
    /\ response[1].challenge

\* C7: get_user_from_headers gives no user when the user id or the email is
\* missing or blank, and otherwise a user whose user_id and email are both
\* non-empty.
C7_NoPartialIdentity ==
    /\ request # None =>
          LET h == request[1].headers
              u == get_user_from_headers(h)
          IN  /\ NoIdentity(h) => u = None
              /\ ~NoIdentity(h) =>
                    /\ u # None
                    /\ u[1].user_id # <<>>
                    /\ u[1].email # <<>>
    /\ state_user # None =>
          /\ state_user[1].user_id # <<>>
          /\ state_user[1].email # <<>>

\* a request with a user id but a blank email went through dispatch and got
\* no identity
C7_Witness ==
    /\ Guarded
    /\ ~Blank(request[1].headers.x_auth_user_id)
    /\ request[1].headers.x_auth_user_email # None
    /\ Blank(request[1].headers.x_auth_user_email)
    /\ get_user_from_headers(request[1].headers) = None
    /\ state_user = None

(***************************************************************************)
(* Properties of the reconciler                                            *)
(***************************************************************************)
\* number of records of the table with this name and provider
Count(table, name, provider) ==
    LET recs == { rec \in BagToSet(table) :
                     rec.name = name /\ rec.provider = provider }
    IN  BagCardinality([rec \in recs |-> CopiesIn(rec, table)])

\* the ids of a remote list, "" for a descriptor without one
IdAt(list, i) == IF list[i].id = None THEN <<>> ELSE list[i].id[1]

\* every descriptor has an id and no two have the same
DistinctIds(list) ==
    /\ \A i \in 1..Len(list) : IdAt(list, i) # <<>>
    /\ \A i, j \in 1..Len(list) : i # j => IdAt(list, i) # IdAt(list, j)

\* how many descriptors of a pass ended with outcome o
Tally(outcome, o) == Cardinality({ i \in 1..Len(outcome) : outcome[i] = o })

\* the pass of handler 1 has run to its end with the gateway configured
PassDone == pass[1].pc = "done" /\ pass[1].result[1].status # 503

\* C8: two sync runs over the same N descriptors with distinct non-empty ids,
\* on a store that held none of them and never fails: the first gives
\* synced=N, skipped=0, the second synced=0, skipped=N, and the second leaves
\* the store as the first left it.
C8_Idempotent ==
    (/\ PassDone
     /\ last_pass # None
     /\ last_pass[1].remote = pass[1].gateway_models
     /\ last_pass[1].store_after = pass[1].store0
     /\ DistinctIds(pass[1].gateway_models)
     /\ \A i \in 1..Len(pass[1].gateway_models) :
           Count(last_pass[1].store_before,
                 IdAt(pass[1].gateway_models, i), "openai_compatible") = 0)
        => LET N      == Len(pass[1].gateway_models)
               first  == last_pass[1].result
               second == pass[1].result[1]
           IN  /\ first.synced = N /\ first.skipped = 0 /\ first.errors = 0
               /\ second.status = 200
               /\ second.synced = 0 /\ second.skipped = N /\ second.errors = 0
               /\ second.models = <<>>
               /\ store = last_pass[1].store_after

\* a second run over the same two distinct ids has ended, all skipped
C8_Witness ==
    /\ PassDone
    /\ last_pass # None
    /\ last_pass[1].remote = pass[1].gateway_models
    /\ last_pass[1].store_after = pass[1].store0
    /\ DistinctIds(pass[1].gateway_models)
    /\ Len(pass[1].gateway_models) = 2
    /\ last_pass[1].result.synced = 2
    /\ pass[1].result[1].skipped = 2

\* C9: with sync passes and deletions run one at a time, from a table with at
\* most one record per (name, provider), the table never holds two records
\* with the same name and provider 'openai_compatible', whatever the remote
\* lists are.
C9_Unique ==
    \A rec \in BagToSet(store) :
        Count(store, rec.name, "openai_compatible") <= 1

\* after a deletion, a pass over a list repeating an id has synced the first
\* occurrence and skipped a later one
C9_Witness ==
    /\ PassDone
    /\ delete_result = 200
    /\ \E i, j \in 1..Len(pass[1].gateway_models) :
          /\ i < j
          /\ IdAt(pass[1].gateway_models, i) # <<>>
          /\ IdAt(pass[1].gateway_models, i) = IdAt(pass[1].gateway_models, j)
          /\ pass[1].outcome[i] = "synced"
          /\ pass[1].outcome[j] = "skipped"

\* what a pass makes of descriptor j of the list when it starts on table and
\* the descriptors at the positions in gone are not there: passed over without
\* an id, skipped when the table or an earlier descriptor has the id, else
\* synced
Expected(list, table, gone, j) ==
    IF IdAt(list, j) = <<>> THEN "unnamed"
    ELSE IF \/ Count(table, IdAt(list, j), "openai_compatible") > 0
            \/ \E i \in 1..(j - 1) :
                  i \notin gone /\ IdAt(list, i) = IdAt(list, j)
         THEN "skipped"
         ELSE "synced"

\* the positions of the descriptors whose store operation failed
Failed(outcome) == { i \in 1..Len(outcome) : outcome[i] = "error" }

\* the part of C10 about counting: a failure does not end the pass, and every
\* descriptor is counted in exactly the bucket of its outcome
PassCounts ==
    LET r == pass[1]
    IN  /\ r.result[1].status = 200
        /\ Len(r.outcome) = Len(r.gateway_models)
        /\ \A j \in 1..Len(r.gateway_models) :
              IF IdAt(r.gateway_models, j) = <<>>
              THEN r.outcome[j] = "unnamed"
              ELSE r.outcome[j] \in {"synced", "skipped", "error"}
        /\ r.result[1].synced = Tally(r.outcome, "synced")
        /\ r.result[1].skipped = Tally(r.outcome, "skipped")
        /\ r.result[1].errors = Tally(r.outcome, "error")
        /\ Len(r.result[1].models) = r.result[1].synced

\* C10 as stated: a store failure does not end the pass, every descriptor with
\* an id is counted once, those without in no bucket, errors is the number of
\* failures, and every other descriptor is synced or skipped as in a pass over
\* the same list without failures.
C10_Original ==
    PassDone
        => /\ PassCounts
           /\ \A j \in 1..Len(pass[1].gateway_models) :
                 j \notin Failed(pass[1].outcome)
                    => pass[1].outcome[j]
                          = Expected(pass[1].gateway_models, pass[1].store0,
                                     {}, j)

\* C10 amended: ... and every other descriptor is synced or skipped as in a
\* pass without failures over the list without the failing descriptors.
C10_FailureIsolation ==
    PassDone
        => /\ PassCounts
           /\ \A j \in 1..Len(pass[1].gateway_models) :
                 j \notin Failed(pass[1].outcome)
                    => pass[1].outcome[j]
                          = Expected(pass[1].gateway_models, pass[1].store0,
                                     Failed(pass[1].outcome), j)

\* a pass went on after a failure and synced a later descriptor with the id
\* of the failed one
C10_Witness ==
    /\ PassDone
    /\ pass[1].result[1].errors = 1
    /\ \E i, j \in 1..Len(pass[1].gateway_models) :
          /\ i < j
          /\ IdAt(pass[1].gateway_models, i) = IdAt(pass[1].gateway_models, j)
          /\ pass[1].outcome[i] = "error"
          /\ pass[1].outcome[j] = "synced"

\* pattern p occurs in id when letter case is ignored
Matches(p, id) ==
    \E i \in 1..(Len(id) - Len(p) + 1) :
        \A k \in 1..Len(p) : id[i + k - 1] = p[k] \/ LowerChar(id[i + k - 1]) = p[k]

\* the type the precedence embed > tts, speech > stt, whisper > language gives
ClaimedType(id) ==
    CASE Matches(StrEmbed, id) -> "embedding"
      [] ~Matches(StrEmbed, id)
            /\ (Matches(StrTts, id) \/ Matches(StrSpeech, id))
         -> "text_to_speech"
      [] ~Matches(StrEmbed, id)
            /\ ~(Matches(StrTts, id) \/ Matches(StrSpeech, id))
            /\ (Matches(StrStt, id) \/ Matches(StrWhisper, id))
         -> "speech_to_text"
      [] OTHER -> "language"

\* C11: a newly synced id is stored with name=id, provider
\* 'openai_compatible' and the type of the first pattern it matches, case
\* ignored, in the order embed; tts or speech; stt or whisper; else language.
C11_Classification ==
    /\ \A rec \in BagToSet(store) :
          /\ rec.provider = "openai_compatible"
          /\ rec.name \in ClassifyIds
          /\ rec.type = ClaimedType(rec.name)
    /\ \A i \in 1..Len(pass[1].synced_models) :
          \E rec \in BagToSet(store) : rec.name = pass[1].synced_models[i]

\* ids that match several patterns were stored: "tts-Embed" and
\* "Whisper-embed" as embedding, "stts" as text_to_speech
C11_Witness ==
    /\ [name |-> <<"t", "t", "s", "-", "E", "m", "b", "e", "d">>,
        provider |-> "openai_compatible", type |-> "embedding"]
          \in BagToSet(store)
    /\ [name |-> <<"W", "h", "i", "s", "p", "e", "r", "-", "e", "m", "b", "e", "d">>,
        provider |-> "openai_compatible", type |-> "embedding"]
          \in BagToSet(store)
    /\ [name |-> <<"s", "t", "t", "s">>, provider |-> "openai_compatible",
        type |-> "text_to_speech"] \in BagToSet(store)

(***************************************************************************)
(* Claims on the registry                                                  *)
(***************************************************************************)
\* STRONGLY_SERVICES is unset, empty or not JSON
NoInput(env) ==
    env = None \/ env[1].text = "empty" \/ env[1].text = "malformed"

\* every lookup on the instance gives None
AllNotFound(inst) ==
    /\ \A name \in ServiceNames : get_service(inst, name) = JNull
    /\ \A db_type \in DbTypes, index \in DbIndexes :
          get_database(inst, db_type, index) = JNull

\* C12: when STRONGLY_SERVICES is absent, empty or malformed JSON, the load
\* of the registry raises nothing, is_configured is false, and get_service
\* and get_database give not-found for every name, database type and index.
C12_NoInputEmptyRegistry ==
    \A i \in 1..Len(instances) :
        /\ instances[i].raised = ""
        /\ instances[i].loaded /\ NoInput(env_services) =>
              /\ ~is_configured(instances[i])
              /\ AllNotFound(instances[i])
              /\ lookup.op # "none" => lookup.result = JNull

\* a caller got the registry loaded from malformed JSON and looked a database
\* up in it
C12_Witness ==
    /\ env_services = Some(RawMalformed)
    /\ caller[1].pc = "got"
    /\ instances[caller[1].inst].loaded
    /\ lookup.op = "get_database"
    /\ lookup.result = JNull

\* the JSON of STRONGLY_SERVICES supplies a non-empty string at
\* services.ai_gateway.base_url
SuppliesBaseUrl(env) ==
    /\ ~NoInput(env)
    /\ LET base_url == PyGet(PyGet(PyGet(env[1].tree, "services", JNull),
                                   "ai_gateway", JNull), "base_url", JNull)
       IN  base_url.t = "str" /\ base_url.s # <<>>

\* a non-empty string that does not end in a slash
CleanBaseUrl(url) == url # <<>> /\ url[Len(url)] # "/"

\* C13: after the load, is_configured is true exactly when the registry JSON
\* supplied a non-empty services.ai_gateway.base_url, and whenever
\* is_configured is true the stored base_url is a non-empty string without a
\* trailing slash.
C13_ConfiguredIffBaseUrl ==
    \A i \in 1..Len(instances) :
        instances[i].loaded =>
            /\ is_configured(instances[i]) <=> SuppliesBaseUrl(env_services)
            /\ is_configured(instances[i]) =>
                  CleanBaseUrl(instances[i].ai_gateway[1].base_url)

\* what holds of the stored base_url: no trailing slash, possibly empty
C13_NoTrailingSlash ==
    \A i \in 1..Len(instances) :
        instances[i].loaded =>
            /\ is_configured(instances[i]) <=> SuppliesBaseUrl(env_services)
            /\ is_configured(instances[i]) =>
                  LET url == instances[i].ai_gateway[1].base_url
                  IN  url = <<>> \/ url[Len(url)] # "/"

\* services.databases.<db_type> of the registry the last lookup was made on;
\* a missing list counts as the empty list
DbListOf(db_type) ==
    PyGet(PyGet(PyGet(instances[lookup.inst].services, "services", JEmptyObj),
                "databases", JEmptyObj), db_type, JList(<<>>))

\* the last lookup was a get_database on a registry whose databases of that
\* type are a list (possibly empty or missing)
DatabaseLookup ==
    /\ lookup.op = "get_database"
    /\ DbListOf(lookup.name).t = "list"

\* C14: get_database(db_type, index) returns the entry at position index of
\* services.databases.<db_type> when index is a valid position of that list,
\* and returns not-found without raising for every other integer index
\* (index >= length, negative index, empty or missing list).
C14_GetDatabase ==
    DatabaseLookup =>
        LET db_list == DbListOf(lookup.name).items
        IN  IF 0 <= lookup.index /\ lookup.index < Len(db_list)
            THEN lookup.result = db_list[lookup.index + 1]
            ELSE lookup.result = JNull

\* what holds: the same for every index that is not negative
C14_NonNegativeIndex ==
    DatabaseLookup /\ lookup.index >= 0 =>
        LET db_list == DbListOf(lookup.name).items
        IN  IF lookup.index < Len(db_list)
            THEN lookup.result = db_list[lookup.index + 1]
            ELSE lookup.result = JNull

\* a negative index raises when it reaches before the start of the list
C14_NegativeRaises ==
    /\ DatabaseLookup
    /\ lookup.index < 0
    /\ lookup.result = Raised("IndexError")

\* a negative index returns an entry counted from the end of the list
C14_NegativeReturnsEntry ==
    /\ DatabaseLookup
    /\ lookup.index = -1
    /\ Len(DbListOf(lookup.name).items) = 2
    /\ lookup.result = Db2

\* C15: under concurrent first access to the registry singleton by several
\* callers, the registry is constructed and loaded exactly once, every caller
\* receives the same instance, and no caller is given an instance whose load
\* has not completed.
C15_SingletonSafe ==
    /\ Len(instances) <= 1
    /\ \A t \in Callers : caller[t].pc = "got" => caller[t].saw_loaded
    /\ \A t, u \in Callers :
          caller[t].pc = "got" /\ caller[u].pc = "got" =>
              caller[t].inst = caller[u].inst

\* a caller was given the instance another caller had constructed and not
\* yet loaded
C15_SawUnloaded ==
    \E t \in Callers : caller[t].pc = "got" /\ ~caller[t].saw_loaded

\* two callers hold two different registries
C15_TwoInstances ==
    /\ caller[1].pc = "got"
    /\ caller[2].pc = "got"
    /\ caller[1].inst # caller[2].inst

(***************************************************************************)
(* Claims on fetch_available_models                                        *)
(***************************************************************************)
EmptyList == JList(<<>>)

\* C16: fetch_available_models never lets an exception through: without a
\* configured gateway it returns an empty list and makes no outbound call;
\* with one, every transport failure, timeout, non-2xx status and
\* response-parsing failure gives an empty list, and only a successful
\* response gives its "data" array (empty if absent).
C16_FetchNeverRaises ==
    fetched.op = "fetch" =>
        LET inst == instances[fetched.inst]
            body == fetched.outcome.body
        IN  /\ ~IsRaised(fetched.result)
            /\ ~is_configured(inst) =>
                  fetched.calls = 0 /\ fetched.result = EmptyList
            /\ is_configured(inst) /\ fetched.outcome.kind # "ok" =>
                  fetched.result = EmptyList
            /\ fetched.result # EmptyList =>
                  /\ is_configured(inst)
                  /\ fetched.outcome.kind = "ok"
                  /\ fetched.result = body.fields["data"]
            /\ is_configured(inst) /\ fetched.outcome.kind = "ok"
                  /\ body.t = "obj" =>
                  IF "data" \notin DOMAIN body.fields
                  THEN fetched.result = EmptyList
                  ELSE body.fields["data"].t = "list" =>
                           fetched.result = body.fields["data"]

\* a configured gateway answered 2xx with a "data" array of one model, which
\* was returned
C16_Witness ==
    /\ fetched.op = "fetch"
    /\ fetched.calls = 1
    /\ fetched.outcome.kind = "ok"
    /\ fetched.result = JList(<<JObj("id" :> JStr(<<"g">>))>>)

\* a configured gateway answered with a status that is not 2xx
C16_WitnessStatus ==
    /\ fetched.op = "fetch"
    /\ fetched.calls = 1
    /\ fetched.outcome.kind = "status"
    /\ fetched.result = EmptyList

(***************************************************************************)
(* Claims on DELETE /strongly/models                                       *)
(***************************************************************************)
\* what the last DELETE /strongly/models did: a failure of the store is a
\* 500; otherwise no record of provider 'openai_compatible' is left and the
\* records of every other provider are as they were
DeleteEffect ==
    delete_log.acted =>
        IF delete_log.failed
        THEN delete_result = 500
        ELSE /\ delete_result = 200
             /\ \A rec \in BagToSet(delete_log.after) :
                   rec.provider # "openai_compatible"
             /\ \A rec \in BagToSet(delete_log.before) :
                   rec.provider # "openai_compatible" =>
                       CopiesIn(rec, delete_log.after)
                           = CopiesIn(rec, delete_log.before)
             /\ BagToSet(delete_log.after) \subseteq BagToSet(delete_log.before)

\* the pass of handler 1 has run to its end over distinct non-empty ids, and
\* it started on the table the last DELETE /strongly/models had left, that
\* DELETE having succeeded
PassAfterDelete ==
    /\ PassDone
    /\ delete_log.acted
    /\ ~delete_log.failed
    /\ pass[1].store0 = delete_log.after
    /\ DistinctIds(pass[1].gateway_models)

\* every id of the list has been created: synced=N, skipped=0
AllRecreated ==
    /\ pass[1].result[1].synced = Len(pass[1].gateway_models)
    /\ pass[1].result[1].skipped = 0
    /\ \A i \in 1..Len(pass[1].gateway_models) :
          Count(store, IdAt(pass[1].gateway_models, i), "openai_compatible") = 1

C17_WitnessFailure ==
    /\ delete_log.acted
    /\ delete_log.failed
    /\ delete_result = 500

(***************************************************************************)
(* Claims on concurrent sync passes                                        *)
(***************************************************************************)
\* at most one record per (name, provider) in the table
UniqueTable(table) ==
    \A rec \in BagToSet(table) : Count(table, rec.name, rec.provider) <= 1

\* both handlers have run a pass over the same list to its end, each having
\* started on a table without duplicates
BothDone ==
    /\ \A p \in Procs :
          /\ pass[p].pc = "done"
          /\ pass[p].result[1].status = 200
          /\ UniqueTable(pass[p].store0)
    /\ pass[1].gateway_models = pass[2].gateway_models

\* C18: when two sync passes over the same remote list are interleaved at
\* their suspension points (the existence query and the save of each
\* descriptor) on a store that does not enforce uniqueness, the store holds at
\* most one record per (name, provider) once both have finished.
C18_ConcurrentUnique == BothDone => UniqueTable(store)

\* both passes found no record of the same id and both saved one
C18_Duplicate ==
    /\ BothDone
    /\ \E i \in 1..Len(pass[1].gateway_models) :
          /\ pass[1].outcome[i] = "synced"
          /\ pass[2].outcome[i] = "synced"
          /\ Count(store, IdAt(pass[1].gateway_models, i),
                   "openai_compatible") = 2

(***************************************************************************)
(* Claims on loading the registry again                                    *)
(***************************************************************************)
\* C19: the registry reflects only the input loaded last: after the initial
\* load and any number of further loads with changed inputs, if the latest
\* input is absent, empty or malformed, the registry has no services and no
\* gateway (is_configured is false), even when an earlier load had configured
\* a gateway.
C19_LatestInputOnly ==
    \A i \in 1..Len(instances) :
        instances[i].loaded /\ NoInput(env_services) =>
            /\ instances[i].services = JEmptyObj
            /\ ~is_configured(instances[i])

\* the registry was loaded again from an absent input and still has the
\* gateway of an earlier load
C19_StaleGateway ==
    /\ env_services = None
    /\ caller[1].pc = "got"
    /\ instances[caller[1].inst].services = JEmptyObj
    /\ is_configured(instances[caller[1].inst])

(***************************************************************************)
(* Claims on the identity in the request context                           *)
(***************************************************************************)
\* the request in flight was admitted by its identity headers
HeaderAdmitted ==
    /\ Guarded
    /\ ~NoIdentity(request[1].headers)
    /\ FlagTrue(request[1].headers)
    /\ response[1].admitted

\* C20: an identity is attached to the request context exactly when the
\* request was admitted through its identity headers; a request that was
\* rejected, or admitted in any other way (excluded path, preflight, password,
\* no authentication required), has none, so get_current_user gives None for
\* it even when it carried valid identity headers.
C20_IdentityOnlyByHeaders ==
    /\ ~Handled => get_current_user(state_user) = None
    /\ Handled =>
          /\ get_current_user(state_user) # None <=> HeaderAdmitted
          /\ get_current_user(state_user) # None =>
                get_current_user(state_user)
                    = get_user_from_headers(request[1].headers)

\* a request on an excluded path with valid identity headers was admitted
\* without an identity
C20_Witness ==
    /\ Handled
    /\ request[1].path \in excluded_paths
    /\ request[1].method # "OPTIONS"
    /\ ~NoIdentity(request[1].headers)
    /\ FlagTrue(request[1].headers)
    /\ response[1].admitted
    /\ get_current_user(state_user) = None

\* a request admitted by the password has no identity
C20_WitnessPassword ==
    /\ Guarded
    /\ BearerMatches(request[1].headers)
    /\ response[1].admitted
    /\ get_current_user(state_user) = None

(***************************************************************************)
(* Claims on well-formed JSON of another shape                             *)
(***************************************************************************)
\* absent, or an object
ObjectOrAbsent(j, key) == key \notin DOMAIN j.fields \/ j.fields[key].t = "obj"

\* the JSON of STRONGLY_SERVICES is well-formed but not of the documented
\* shape: the top-level value, 'services', 'ai_gateway' or 'databases' is not
\* an object, or a database type is not mapped to a list
OffSchema(env) ==
    /\ ~NoInput(env)
    /\ LET tree == env[1].tree
       IN  \/ tree.t # "obj"
           \/ ~ObjectOrAbsent(tree, "services")
           \/ /\ "services" \in DOMAIN tree.fields
              /\ LET svc == tree.fields["services"]
                 IN  \/ ~ObjectOrAbsent(svc, "ai_gateway")
                     \/ ~ObjectOrAbsent(svc, "databases")
                     \/ /\ "databases" \in DOMAIN svc.fields
                        /\ \E db_type \in DOMAIN svc.fields["databases"].fields :
                              svc.fields["databases"].fields[db_type].t # "list"

\* the load of such an input completes, and is_configured is false unless a
\* non-empty base_url was found
OffSchemaLoad(i) ==
    /\ instances[i].raised = ""
    /\ is_configured(instances[i]) => SuppliesBaseUrl(env_services)

\* C21: for every input that is well-formed JSON but not of the documented
\* shape, the load completes, is_configured is false unless a non-empty
\* base_url was found, and get_service and get_database return a value or
\* not-found without raising.
C21_BadShapeNeverRaises ==
    \A i \in 1..Len(instances) :
        instances[i].loaded /\ OffSchema(env_services) =>
            /\ OffSchemaLoad(i)
            /\ \A name \in ServiceNames :
                  ~IsRaised(get_service(instances[i], name))
            /\ \A db_type \in DbTypes, index \in DbIndexes :
                  ~IsRaised(get_database(instances[i], db_type, index))
            /\ ~IsRaised(lookup.result)

\* what holds: the part about the load
C21_LoadCompletes ==
    \A i \in 1..Len(instances) :
        instances[i].loaded /\ OffSchema(env_services) => OffSchemaLoad(i)

\* get_service raised on a registry whose top-level value is a list
C21_GetServiceRaises ==
    /\ OffSchema(env_services)
    /\ env_services[1].tree.t = "list"
    /\ lookup.op = "get_service"
    /\ lookup.result = Raised("AttributeError")

\* get_database raised on a database type mapped to a number, and on one
\* mapped to an object
C21_GetDatabaseRaises ==
    /\ env_services = Some(RawJson(TreeDbNotList))
    /\ lookup.op = "get_database"
    /\ lookup.result \in {Raised("TypeError"), Raised("KeyError")}

====
